---- MODULE Spec2Model ----
(***************************************************************************)
(* Model of src/main.py: the two Reasoner-backed stages that decode a      *)
(* structured reply (SQLValidatorAgent.validate_sql and                    *)
(* ResultsPreviewerAgent.preview_results), the refinement loop             *)
(* refine_sql_until_correct, and the Streamlit handlers "Analyze Schema"   *)
(* and "Generate SQL" working on st.session_state.                         *)
(*                                                                         *)
(* A Reasoner reply is a sequence of tokens.  "{" and "}" are the braces,  *)
(* "w" is a word of prose, "_" is JSON whitespace, "1" is a JSON scalar,   *)
(* and every other token is one member  "key": value  of a JSON object     *)
(* (see TokKey / TokVal).  An object nested in member position is written  *)
(* as a brace pair inside the object.                                      *)
(***************************************************************************)
EXTENDS Integers, Sequences, FiniteSets, TLC

\* ---------------------------------------------------------------- bounds
MaxLen == 5          \* longest reply text explored by the parser specification
MaxHistory == 1      \* completed submissions explored per session
MaxNonConforming == 1 \* replies per session that depart from the format the
                     \* prompt asks for

\* ------------------------------------------------------- program constants
max_iterations == 3

\* ------------------------------------------------------------ JSON values
Absent == "<absent>"         \* a key that is not in the dict

Keys == {"is_valid", "issues", "suggested_fix", "matches_user_intent",
         "suggested_improved_query", "explanation", "data"}

MemberTokens == {"vT", "vF", "iX", "f0", "f1", "f2", "mT", "mF",
                 "s0", "s1", "s2", "eX", "dX"}

TokKey(tok) ==
    CASE tok \in {"vT", "vF"}       -> "is_valid"
      [] tok \in {"f0", "f1", "f2"} -> "suggested_fix"
      [] tok \in {"mT", "mF"}       -> "matches_user_intent"
      [] tok \in {"s0", "s1", "s2"} -> "suggested_improved_query"
      [] tok = "eX"                 -> "explanation"
      [] tok = "iX"                 -> "issues"
      [] tok = "dX"                 -> "data"
      [] OTHER                      -> Absent

TokVal(tok) ==
    CASE tok \in {"vT", "mT"} -> "true"
      [] tok \in {"vF", "mF"} -> "false"
      [] tok \in {"f0", "s0"} -> ""
      [] tok \in {"f1", "s1"} -> "q1"
      [] tok \in {"f2", "s2"} -> "q2"
      [] OTHER                -> "x"

\* ------------------------------------------------------------- re.search
FirstOpen(content) ==
    IF \E i \in 1..Len(content) : content[i] = "{"
    THEN CHOOSE i \in 1..Len(content) :
            content[i] = "{" /\ \A j \in 1..(i-1) : content[j] # "{"
    ELSE 0

\* faulty variant of LastClose: the match is minimal, it ends at the first "}" that
\* follows the first "{"
LastCloseNonGreedy(content) ==
    IF \E i \in (FirstOpen(content)+1)..Len(content) : content[i] = "}"
    THEN CHOOSE i \in (FirstOpen(content)+1)..Len(content) :
            content[i] = "}" /\ \A j \in (FirstOpen(content)+1)..(i-1) : content[j] # "}"
    ELSE 0

LastClose(content) ==
    IF \E i \in 1..Len(content) : content[i] = "}"
    THEN CHOOSE i \in 1..Len(content) :
            content[i] = "}" /\ \A j \in (i+1)..Len(content) : content[j] # "}"
    ELSE 0

\* re.search(r'{.*}', content, re.DOTALL): leftmost "{" that has a "}" after
\* it, extended greedily to the last "}" of the text; <<>> stands for None.
ReSearch(content) ==
    IF FirstOpen(content) > 0 /\ LastClose(content) > FirstOpen(content)
    THEN SubSeq(content, FirstOpen(content), LastClose(content))
    ELSE <<>>

\* content = json_match.group(0) if json_match else content
ExtractContent(content) ==
    IF ReSearch(content) # <<>> THEN ReSearch(content) ELSE content

\* ------------------------------------------------------------- json.loads
StripWs(t) == SelectSeq(t, LAMBDA c : c # "_")

\* nesting depth after the first i tokens
RECURSIVE Depth(_, _)
Depth(t, i) ==
    IF i = 0 THEN 0
    ELSE Depth(t, i-1) + (IF t[i] = "{" THEN 1 ELSE IF t[i] = "}" THEN -1 ELSE 0)

\* one JSON object and nothing else: opens at the first token, closes at the
\* last one and not before, holds only members and nested objects
IsObject(t) ==
    /\ Len(t) >= 2
    /\ t[1] = "{" /\ t[Len(t)] = "}"
    /\ \A i \in 1..(Len(t)-1) : Depth(t, i) >= 1
    /\ Depth(t, Len(t)) = 0
    /\ \A i \in 1..Len(t) : t[i] \in MemberTokens \cup {"{", "}"}

\* the members of the outermost object; a repeated key keeps its last value
TopValue(t, key) ==
    LET idx == {i \in 2..(Len(t)-1) : Depth(t, i-1) = 1 /\ TokKey(t[i]) = key}
    IN IF idx = {} THEN Absent
       ELSE TokVal(t[CHOOSE i \in idx : \A j \in idx : j <= i])

EmptyDict == [k \in Keys |-> Absent]

JsonLoads(content) ==
    LET t == StripWs(content)
    IN IF IsObject(t)
       THEN [kind |-> "dict", fields |-> [k \in Keys |-> TopValue(t, k)]]
       ELSE IF t = <<"1">>
       THEN [kind |-> "scalar", fields |-> EmptyDict]
       ELSE [kind |-> "JSONDecodeError", fields |-> EmptyDict]

\* ------------------------------------------------------ the stages' parse
ValidatorFallback(generated_sql) ==
    [kind |-> "dict",
     fields |-> [k \in Keys |->
        CASE k = "is_valid"      -> "false"
          [] k = "issues"        -> "x"
          [] k = "suggested_fix" -> generated_sql
          [] k = "explanation"   -> "x"
          [] OTHER               -> Absent]]

ValidateSqlParse(content, generated_sql) ==
    LET r == JsonLoads(ExtractContent(content))
    IN IF r.kind = "JSONDecodeError" THEN ValidatorFallback(generated_sql) ELSE r

PreviewFallback(sql_query) ==
    [kind |-> "dict",
     fields |-> [k \in Keys |->
        CASE k = "matches_user_intent"      -> "false"
          [] k = "suggested_improved_query" -> sql_query
          [] k = "explanation"              -> "x"
          [] k = "data"                     -> "x"
          [] OTHER                          -> Absent]]

PreviewResultsParse(content, sql_query) ==
    LET r == JsonLoads(ExtractContent(content))
    IN IF r.kind = "JSONDecodeError" THEN PreviewFallback(sql_query) ELSE r

\* d[key] on a decoded reply: TypeError on a non-dict, KeyError on a missing key
CanRead(d, key) == d.kind = "dict" /\ d.fields[key] # Absent

ReadError(d, key) == IF d.kind # "dict" THEN "TypeError" ELSE "KeyError"

\* ------------------------------------------------------- Reasoner replies
AnalyzerReplies == {"a1"}

GeneratorReplies == {"q3"}

ValidatorReplies ==
    { <<"{", "vT", "eX", "}">>,
      <<"{", "vF", "iX", "f2", "eX", "}">>,
      <<"{", "vF", "iX", "f0", "eX", "}">>,
      <<"{", "vF", "iX", "eX", "}">>,
      <<"w">>,
      <<"{", "}">>,
      <<"1">> }

PreviewReplies ==
    { <<"{", "dX", "mT", "eX", "}">>,
      <<"{", "dX", "mF", "eX", "s1", "}">>,
      <<"{", "dX", "mF", "eX", "s0", "}">>,
      <<"{", "dX", "mF", "eX", "}">>,
      <<"{", "dX", "mF", "s0", "}">>,
      <<"{", "mT", "eX", "}">>,
      <<"w">>,
      <<"{", "}">>,
      <<"1">> }

\* the replies that follow the format of the prompt (lines 111-119, 168-185)
ConformingValidatorReplies ==
    { <<"{", "vT", "eX", "}">>,
      <<"{", "vF", "iX", "f2", "eX", "}">> }

ConformingPreviewReplies ==
    { <<"{", "dX", "mT", "eX", "}">>,
      <<"{", "dX", "mF", "eX", "s1", "}">> }

SchemaTexts == {"", "d1"}    \* what the text area can hold

FileTexts == {"d1"}          \* what an uploaded file can hold

UserQueries == {"", "u1"}

\* ------------------------------------------------------------------ state
VARIABLES
    schema,             \* st.session_state.schema
    schema_analysis,    \* st.session_state.schema_analysis, Absent until set
    query_history,      \* st.session_state.query_history
    pc,                 \* position of the running script
    err,                \* exception that ended the script run, "none" otherwise
    message,            \* last st.error / st.info / st.success of the run
    user_query,         \* text of the query box at the click
    generated_sql, valid_sql, validation_result, initial_preview,
    refinement_result, \* locals of the "Generate SQL" handler
    current_sql, iteration_history, i, preview_results, loop_validation,
                        \* locals of refine_sql_until_correct
                        \* (loop_validation is its validation_result)
    calls,              \* Reasoner calls issued since the click, in order
    nonconforming,      \* replies so far outside the Conforming sets
    before,             \* session state at the click
    p_text, p_sql, p_stage, p_out
                        \* reply text, SQL argument, stage and result of the
                        \* parse under study (parser specification only)

session == <<schema, schema_analysis, query_history>>
handler_locals == <<generated_sql, valid_sql, validation_result,
                    initial_preview, refinement_result>>
handler == <<user_query, generated_sql, valid_sql, validation_result,
             initial_preview, refinement_result>>
refine == <<current_sql, iteration_history, i, preview_results, loop_validation>>
parser == <<p_text, p_sql, p_stage, p_out>>
vars == <<schema, schema_analysis, query_history, pc, err, message,
          user_query, generated_sql, valid_sql, validation_result,
          initial_preview, refinement_result, current_sql, iteration_history,
          i, preview_results, loop_validation, calls, nonconforming,
          before, p_text, p_sql, p_stage, p_out>>

Unset == [kind |-> "unset", fields |-> EmptyDict]

NoOutcome == [sql |-> Absent, results |-> Unset, iterations |-> 0,
              final |-> FALSE, history |-> <<>>]

Snapshot == [schema |-> schema, schema_analysis |-> schema_analysis,
             query_history |-> query_history]

HandlerFresh ==
    /\ generated_sql = Absent /\ valid_sql = Absent
    /\ validation_result = Unset /\ initial_preview = Unset
    /\ refinement_result = NoOutcome

RefineFresh ==
    /\ current_sql = Absent /\ iteration_history = <<>> /\ i = 0
    /\ preview_results = Unset /\ loop_validation = Unset

ParserOff == p_text = <<>> /\ p_sql = Absent /\ p_stage = "off" /\ p_out = Unset

Init ==
    /\ schema = "" /\ schema_analysis = Absent /\ query_history = <<>>
    /\ pc = "idle" /\ err = "none" /\ message = "none"
    /\ user_query = "" /\ HandlerFresh /\ RefineFresh
    /\ calls = <<>> /\ nonconforming = 0
    /\ before = [schema |-> "", schema_analysis |-> Absent, query_history |-> <<>>]
    /\ ParserOff

\* the reply is one the bound MaxNonConforming still allows
Admit(content, conforming) ==
    IF content \in conforming
    THEN nonconforming' = nonconforming
    ELSE nonconforming < MaxNonConforming /\ nonconforming' = nonconforming + 1

\* a Reasoner call: the stage, its SQL argument (the raw schema for the
\* analyzer, Absent for the handler's generator call) and the call site
Call(stage, sql, where) == [stage |-> stage, sql |-> sql, where |-> where]

\* the locals of the script run are gone
LocalsGone ==
    /\ generated_sql' = Absent /\ valid_sql' = Absent
    /\ validation_result' = Unset /\ initial_preview' = Unset
    /\ refinement_result' = NoOutcome
    /\ current_sql' = Absent /\ iteration_history' = <<>> /\ i' = 0
    /\ preview_results' = Unset /\ loop_validation' = Unset

\* faulty variant of Raise: the exception is caught and the run goes on to its end
RaiseSwallowed(e) == pc' = "done" /\ err' = e /\ LocalsGone

\* an exception nothing catches: it unwinds refine_sql_until_correct and the
\* handler, and ends the script run
Raise(e) == pc' = "raised" /\ err' = e /\ LocalsGone

\* ---------------------------------------------------------------- sidebar
\* lines 298-305: the pasted text replaces the schema unless it is empty
PasteSchema ==
    /\ pc = "idle"
    /\ \E schema_text \in SchemaTexts :
          schema' = IF schema_text # "" THEN schema_text ELSE schema
    /\ message' = "none"
    /\ UNCHANGED <<schema_analysis, query_history, pc, err, handler, refine,
                   calls, nonconforming, before, parser>>

\* lines 306-310: the uploaded file replaces the schema
UploadSchema ==
    /\ pc = "idle"
    /\ \E file_text \in FileTexts : schema' = file_text
    /\ message' = "uploaded"
    /\ UNCHANGED <<schema_analysis, query_history, pc, err, handler, refine,
                   calls, nonconforming, before, parser>>

\* faulty variant of AnalyzeSchema: the stored analysis is dropped before the call
AnalyzeSchemaClearsFirst ==
    /\ pc = "idle"
    /\ before' = Snapshot
    /\ IF schema # ""
       THEN /\ calls' = <<Call("analyzer", schema, "sidebar")>>
            /\ \/ /\ \E content \in AnalyzerReplies : schema_analysis' = content
                  /\ message' = "Schema analyzed successfully!"
                  /\ UNCHANGED <<pc, err, handler, refine>>
               \/ /\ Raise("ReasonerFailure")
                  /\ schema_analysis' = Absent
                  /\ UNCHANGED <<message, user_query>>
       ELSE /\ message' = "Please provide a database schema first."
            /\ UNCHANGED <<schema_analysis, pc, err, calls, handler, refine>>
    /\ UNCHANGED <<schema, query_history, nonconforming, parser>>

\* lines 312-319
AnalyzeSchema ==
    /\ pc = "idle"
    /\ before' = Snapshot
    /\ IF schema # ""
       THEN /\ calls' = <<Call("analyzer", schema, "sidebar")>>
            /\ \/ /\ \E content \in AnalyzerReplies : schema_analysis' = content
                  /\ message' = "Schema analyzed successfully!"
                  /\ UNCHANGED <<pc, err, handler, refine>>
               \/ /\ Raise("ReasonerFailure")
                  /\ UNCHANGED <<schema_analysis, message, user_query>>
       ELSE /\ message' = "Please provide a database schema first."
            /\ UNCHANGED <<schema_analysis, pc, err, calls, handler, refine>>
    /\ UNCHANGED <<schema, query_history, nonconforming, parser>>

\* ------------------------------------------------- "Generate SQL" handler
\* faulty variant of ClickGenerateSQL: the button is there before any schema
\* analysis
ClickGenerateSQLUnguarded ==
    /\ pc = "idle"
    /\ Len(query_history) < MaxHistory
    /\ \E q \in UserQueries :
          IF q # ""
          THEN /\ user_query' = q /\ pc' = "generate" /\ message' = "none"
               /\ before' = Snapshot /\ calls' = <<>>
          ELSE /\ message' = "Please enter a query first."
               /\ UNCHANGED <<user_query, pc, before, calls>>
    /\ UNCHANGED <<session, err, generated_sql, valid_sql, validation_result,
                   initial_preview, refinement_result, refine, nonconforming,
                   parser>>

\* lines 324-334 and 424-425; the button exists only once a schema analysis
\* is in the session
ClickGenerateSQL ==
    /\ pc = "idle"
    /\ schema_analysis # Absent
    /\ Len(query_history) < MaxHistory
    /\ \E q \in UserQueries :
          IF q # ""
          THEN /\ user_query' = q /\ pc' = "generate" /\ message' = "none"
               /\ before' = Snapshot /\ calls' = <<>>
          ELSE /\ message' = "Please enter a query first."
               /\ UNCHANGED <<user_query, pc, before, calls>>
    /\ UNCHANGED <<session, err, generated_sql, valid_sql, validation_result,
                   initial_preview, refinement_result, refine, nonconforming,
                   parser>>

\* lines 336-343
GenerateInitial ==
    /\ pc = "generate"
    /\ calls' = Append(calls, Call("generator", Absent, "handler"))
    /\ \/ /\ \E content \in GeneratorReplies : generated_sql' = content
          /\ pc' = "validate"
          /\ UNCHANGED <<err, valid_sql, validation_result, initial_preview,
                         refinement_result, refine>>
       \/ Raise("ReasonerFailure")
    /\ UNCHANGED <<session, message, user_query, nonconforming, before, parser>>

\* lines 352-364 on a verdict v: the keys read, in the order they are read
HandlerVerdictKeys(v) ==
    IF ~CanRead(v, "is_valid") THEN <<"is_valid">>
    ELSE IF v.fields["is_valid"] = "true" THEN <<"is_valid", "explanation">>
    ELSE <<"is_valid", "issues", "suggested_fix", "explanation">>

AllReadable(d, keys) == \A n \in 1..Len(keys) : CanRead(d, keys[n])

\* lines 345-364
ValidateInitial ==
    /\ pc = "validate"
    /\ calls' = Append(calls, Call("validator", generated_sql, "handler"))
    /\ \/ \E content \in ValidatorReplies :
            LET v == ValidateSqlParse(content, generated_sql) IN
            /\ Admit(content, ConformingValidatorReplies)
            /\ IF AllReadable(v, HandlerVerdictKeys(v))
               THEN /\ validation_result' = v
                    /\ valid_sql' = IF v.fields["is_valid"] = "true"
                                    THEN generated_sql
                                    ELSE v.fields["suggested_fix"]
                    /\ pc' = "preview"
                    /\ UNCHANGED <<err, generated_sql, initial_preview,
                                   refinement_result, refine>>
               ELSE Raise(ReadError(v, "is_valid"))
       \/ /\ Raise("ReasonerFailure")
          /\ UNCHANGED nonconforming
    /\ UNCHANGED <<session, message, user_query, before, parser>>

\* lines 366-387: the first preview; a prediction that does not match the
\* intent enters refine_sql_until_correct (lines 210-213)
PreviewInitial ==
    /\ pc = "preview"
    /\ calls' = Append(calls, Call("previewer", valid_sql, "handler"))
    /\ \/ \E content \in PreviewReplies :
            LET r == PreviewResultsParse(content, valid_sql) IN
            /\ Admit(content, ConformingPreviewReplies)
            /\ IF ~CanRead(r, "matches_user_intent")
               THEN Raise(ReadError(r, "matches_user_intent"))
               ELSE /\ initial_preview' = r
                    /\ IF r.fields["matches_user_intent"] = "false"
                       THEN /\ current_sql' = valid_sql
                            /\ iteration_history' = <<>>
                            /\ i' = 0
                            /\ pc' = "loop_preview"
                       ELSE /\ pc' = "finish"
                            /\ UNCHANGED <<current_sql, iteration_history, i>>
                    /\ UNCHANGED <<err, generated_sql, valid_sql,
                                   validation_result, refinement_result,
                                   preview_results, loop_validation>>
       \/ /\ Raise("ReasonerFailure")
          /\ UNCHANGED nonconforming
    /\ UNCHANGED <<session, message, user_query, before, parser>>

\* ----------------------------------------------- refine_sql_until_correct
\* faulty variant of IterationRecord: the record keeps the SQL the function was
\* entered with
IterationRecordInitialSql(iteration, sql, results) ==
    [iteration |-> iteration, sql |-> valid_sql, results |-> results]

\* lines 221-225 and 276-280
IterationRecord(iteration, sql, results) ==
    [iteration |-> iteration, sql |-> sql, results |-> results]

\* faulty variant of LoopContinues: the bound of the loop is off by one
LoopContinuesOffByOne(k) == k <= max_iterations

\* line 215, for i in range(max_iterations): the loop body runs for index k
LoopContinues(k) == k < max_iterations

\* faulty variant of ConvergedOutcome: the 0-based loop index is reported
ConvergedOutcomeZeroBased(sql, results, k, history) ==
    [sql |-> sql, results |-> results, iterations |-> k, final |-> TRUE,
     history |-> history]

\* lines 228-234
ConvergedOutcome(sql, results, k, history) ==
    [sql |-> sql, results |-> results, iterations |-> k + 1, final |-> TRUE,
     history |-> history]

\* faulty variant of ExhaustedOutcome: the exhausted outcome is flagged as final
ExhaustedOutcomeFlaggedFinal(sql, results, history) ==
    [sql |-> sql, results |-> results, iterations |-> max_iterations,
     final |-> TRUE, history |-> history]

\* faulty variant of ExhaustedOutcome: the prediction after the loop is counted as
\* one more iteration
ExhaustedOutcomeCountsExtra(sql, results, history) ==
    [sql |-> sql, results |-> results, iterations |-> max_iterations + 1,
     final |-> FALSE, history |-> history]

\* lines 282-288
ExhaustedOutcome(sql, results, history) ==
    [sql |-> sql, results |-> results, iterations |-> max_iterations,
     final |-> FALSE, history |-> history]

\* lines 215-234: one round's prediction, its record, and the success exit
LoopPreview ==
    /\ pc = "loop_preview"
    /\ calls' = Append(calls, Call("previewer", current_sql, "loop"))
    /\ \/ \E content \in PreviewReplies :
            LET r == PreviewResultsParse(content, current_sql)
                h == Append(iteration_history,
                            IterationRecord(i + 1, current_sql, r))
            IN
            /\ Admit(content, ConformingPreviewReplies)
            /\ IF ~CanRead(r, "matches_user_intent")
               THEN Raise(ReadError(r, "matches_user_intent"))
               ELSE /\ preview_results' = r
                    /\ iteration_history' = h
                    /\ IF r.fields["matches_user_intent"] = "true"
                       THEN /\ refinement_result' =
                                  ConvergedOutcome(current_sql, r, i, h)
                            /\ pc' = "finish"
                       ELSE /\ pc' = "next_candidate"
                            /\ UNCHANGED refinement_result
                    /\ UNCHANGED <<err, generated_sql, valid_sql,
                                   validation_result, initial_preview,
                                   current_sql, i, loop_validation>>
       \/ /\ Raise("ReasonerFailure")
          /\ UNCHANGED nonconforming
    /\ UNCHANGED <<session, message, user_query, before, parser>>

\* faulty variant of HasSuggestion: an empty suggestion counts as one
HasSuggestionPresentOnly(r) == r.fields["suggested_improved_query"] # Absent

\* line 237
HasSuggestion(r) ==
    /\ r.fields["suggested_improved_query"] # Absent
    /\ r.fields["suggested_improved_query"] # ""

\* lines 236-262: the next candidate, from the prediction or the generator
NextCandidate ==
    /\ pc = "next_candidate"
    /\ IF HasSuggestion(preview_results)
       THEN /\ current_sql' = preview_results.fields["suggested_improved_query"]
            /\ pc' = "revalidate"
            /\ UNCHANGED <<err, calls, handler, iteration_history, i,
                           preview_results, loop_validation>>
       ELSE IF ~CanRead(preview_results, "explanation")
       THEN /\ Raise(ReadError(preview_results, "explanation"))
            /\ UNCHANGED <<calls, user_query>>
       ELSE /\ calls' = Append(calls, Call("generator", current_sql, "loop"))
            /\ \/ /\ \E content \in GeneratorReplies : current_sql' = content
                  /\ pc' = "revalidate"
                  /\ UNCHANGED <<err, handler, iteration_history, i,
                                 preview_results, loop_validation>>
               \/ /\ Raise("ReasonerFailure")
                  /\ UNCHANGED user_query
    /\ UNCHANGED <<session, message, nonconforming, before, parser>>

\* faulty variant of Revalidate: the verdict is read but the candidate is kept
RevalidateKeepsCandidate ==
    /\ pc = "revalidate"
    /\ calls' = Append(calls, Call("validator", current_sql, "loop"))
    /\ \/ \E content \in ValidatorReplies :
            LET v == ValidateSqlParse(content, current_sql) IN
            /\ Admit(content, ConformingValidatorReplies)
            /\ IF ~CanRead(v, "is_valid")
               THEN Raise(ReadError(v, "is_valid"))
               ELSE /\ loop_validation' = v
                    /\ i' = i + 1
                    /\ pc' = IF LoopContinues(i + 1)
                             THEN "loop_preview" ELSE "final_preview"
                    /\ UNCHANGED <<err, generated_sql, valid_sql,
                                   validation_result, initial_preview,
                                   refinement_result, current_sql,
                                   iteration_history, preview_results>>
       \/ /\ Raise("ReasonerFailure")
          /\ UNCHANGED nonconforming
    /\ UNCHANGED <<session, message, user_query, before, parser>>

\* lines 264-269 and the step of the loop, line 215
Revalidate ==
    /\ pc = "revalidate"
    /\ calls' = Append(calls, Call("validator", current_sql, "loop"))
    /\ \/ \E content \in ValidatorReplies :
            LET v == ValidateSqlParse(content, current_sql) IN
            /\ Admit(content, ConformingValidatorReplies)
            /\ IF ~CanRead(v, "is_valid")
               THEN Raise(ReadError(v, "is_valid"))
               ELSE IF v.fields["is_valid"] = "false" /\ ~CanRead(v, "suggested_fix")
               THEN Raise(ReadError(v, "suggested_fix"))
               ELSE /\ loop_validation' = v
                    /\ current_sql' = IF v.fields["is_valid"] = "false"
                                      THEN v.fields["suggested_fix"]
                                      ELSE current_sql
                    /\ i' = i + 1
                    /\ pc' = IF LoopContinues(i + 1)
                             THEN "loop_preview" ELSE "final_preview"
                    /\ UNCHANGED <<err, generated_sql, valid_sql,
                                   validation_result, initial_preview,
                                   refinement_result, iteration_history,
                                   preview_results>>
       \/ /\ Raise("ReasonerFailure")
          /\ UNCHANGED nonconforming
    /\ UNCHANGED <<session, message, user_query, before, parser>>

\* faulty variant of FinalPreview: the prediction after the loop is asked for
\* the SQL of the last round's record again
FinalPreviewOfLastRound ==
    /\ pc = "final_preview"
    /\ LET last_sql == iteration_history[Len(iteration_history)].sql IN
       /\ calls' = Append(calls, Call("previewer", last_sql, "final"))
       /\ \/ \E content \in PreviewReplies :
               LET final_preview == PreviewResultsParse(content, last_sql)
                   h == Append(iteration_history,
                               IterationRecord(max_iterations, last_sql,
                                               final_preview))
               IN
               /\ Admit(content, ConformingPreviewReplies)
               /\ iteration_history' = h
               /\ refinement_result' = ExhaustedOutcome(last_sql, final_preview, h)
               /\ pc' = "finish"
               /\ UNCHANGED <<err, generated_sql, valid_sql, validation_result,
                              initial_preview, current_sql, i, preview_results,
                              loop_validation>>
          \/ /\ Raise("ReasonerFailure")
             /\ UNCHANGED nonconforming
    /\ UNCHANGED <<session, message, user_query, before, parser>>

\* lines 271-288: the budget is spent; one more prediction and the outcome
FinalPreview ==
    /\ pc = "final_preview"
    /\ calls' = Append(calls, Call("previewer", current_sql, "final"))
    /\ \/ \E content \in PreviewReplies :
            LET final_preview == PreviewResultsParse(content, current_sql)
                h == Append(iteration_history,
                            IterationRecord(max_iterations, current_sql,
                                            final_preview))
            IN
            /\ Admit(content, ConformingPreviewReplies)
            /\ iteration_history' = h
            /\ refinement_result' = ExhaustedOutcome(current_sql, final_preview, h)
            /\ pc' = "finish"
            /\ UNCHANGED <<err, generated_sql, valid_sql, validation_result,
                           initial_preview, current_sql, i, preview_results,
                           loop_validation>>
       \/ /\ Raise("ReasonerFailure")
          /\ UNCHANGED nonconforming
    /\ UNCHANGED <<session, message, user_query, before, parser>>

\* --------------------------------------- "Generate SQL" handler, the end
\* lines 381 and 396-400
RefinementRan == initial_preview.fields["matches_user_intent"] = "false"

Results == IF RefinementRan THEN refinement_result.results ELSE initial_preview

\* line 420
EntrySql(results) ==
    IF results = initial_preview THEN valid_sql ELSE refinement_result.sql

QueryHistoryEntry(results) ==
    [user_query |-> user_query, sql |-> EntrySql(results), results |-> results]

\* lines 389-423: display of the results, then the history entry; the script
\* run ends here and its locals with it
Finish ==
    /\ pc = "finish"
    /\ IF AllReadable(Results, <<"data", "matches_user_intent", "explanation">>)
       THEN /\ query_history' = Append(query_history, QueryHistoryEntry(Results))
            /\ pc' = "done"
            /\ LocalsGone
            /\ UNCHANGED err
       ELSE /\ Raise(ReadError(Results, "data"))
            /\ UNCHANGED query_history
    /\ UNCHANGED <<schema, schema_analysis, message, user_query, calls,
                   nonconforming, before, parser>>

\* the next widget event starts a new script run
Rerun ==
    /\ pc \in {"done", "raised"}
    /\ pc' = "idle" /\ err' = "none" /\ message' = "none"
    /\ user_query' = ""
    /\ calls' = <<>>
    /\ UNCHANGED <<session, handler_locals, refine, nonconforming, before,
                   parser>>

Next ==
    \/ PasteSchema \/ UploadSchema \/ AnalyzeSchema
    \/ ClickGenerateSQL \/ GenerateInitial \/ ValidateInitial \/ PreviewInitial
    \/ LoopPreview \/ NextCandidate \/ Revalidate \/ FinalPreview
    \/ Finish \/ Rerun

Spec == Init /\ [][Next]_vars

\* ------------------------------------------------ parser specification
\* The two stages' decoding of a reply (lines 123-139 and 189-207) applied
\* to every reply text of at most MaxLen tokens.
ParserAlphabet == {"{", "}", "w", "_", "1", "mT"}

ReplyTexts == UNION {[1..n -> ParserAlphabet] : n \in 0..MaxLen}

ParserInit ==
    /\ schema = "" /\ schema_analysis = Absent /\ query_history = <<>>
    /\ pc = "idle" /\ err = "none" /\ message = "none"
    /\ user_query = "" /\ HandlerFresh /\ RefineFresh
    /\ calls = <<>> /\ nonconforming = 0
    /\ before = [schema |-> "", schema_analysis |-> Absent, query_history |-> <<>>]
    /\ p_text \in ReplyTexts
    /\ p_sql = "q1"
    /\ p_stage = "pending"
    /\ p_out = Unset

\* validate_sql, lines 123-139, on the reply p_text for generated_sql = p_sql
ParseValidator ==
    /\ p_stage = "pending"
    /\ p_stage' = "validator"
    /\ p_out' = ValidateSqlParse(p_text, p_sql)
    /\ UNCHANGED <<session, pc, err, message, handler, refine, calls,
                   nonconforming, before, p_text, p_sql>>

\* preview_results, lines 189-207, on the reply p_text for sql_query = p_sql
ParsePreview ==
    /\ p_stage = "pending"
    /\ p_stage' = "previewer"
    /\ p_out' = PreviewResultsParse(p_text, p_sql)
    /\ UNCHANGED <<session, pc, err, message, handler, refine, calls,
                   nonconforming, before, p_text, p_sql>>

ParserNext == ParseValidator \/ ParsePreview

ParserSpec == ParserInit /\ [][ParserNext]_vars

\* ============================================================== properties
CountCalls(stage, places) ==
    Cardinality({n \in 1..Len(calls) :
                    calls[n].stage = stage /\ calls[n].where \in places})

InRefine == {"loop", "final"}
Anywhere == {"sidebar", "handler", "loop", "final"}

\* the ResultsPredictor calls of refine_sql_until_correct, in order
RefinePreviewCalls ==
    SelectSeq(calls, LAMBDA c : c.stage = "previewer" /\ c.where \in InRefine)

\* refine_sql_until_correct has returned its outcome
Returned == refinement_result # NoOutcome

Matches(r) == r.kind = "dict" /\ r.fields["matches_user_intent"] = "true"

\* the rounds of the loop (not the prediction after it) whose prediction
\* matched the intent
ConvergedRounds ==
    {k \in 1..Len(iteration_history) :
        /\ k <= CountCalls("previewer", {"loop"})
        /\ Matches(iteration_history[k].results)}

\* C1: refine_sql_until_correct issues at most max_iterations ResultsPredictor
\* calls in the loop body, and when it returns it has issued one more call
\* exactly if no round converged; the outcome's iterations is at most
\* max_iterations.
C1_LoopTermination ==
    /\ CountCalls("previewer", {"loop"}) <= max_iterations
    /\ CountCalls("previewer", {"final"}) <= 1
    /\ Returned =>
          /\ refinement_result.iterations <= max_iterations
          /\ (CountCalls("previewer", {"final"}) = 1) <=> (ConvergedRounds = {})

C1_Witness ==
    /\ Returned
    /\ CountCalls("previewer", {"loop"}) = max_iterations
    /\ CountCalls("previewer", {"final"}) = 1
    /\ ConvergedRounds = {}

\* C2: in every returned outcome the history has as many records as the
\* outcome's iterations, and the records are numbered 1, 2, 3, ... in order.
C2_HistoryComplete ==
    Returned =>
       /\ Len(refinement_result.history) = refinement_result.iterations
       /\ \A n \in 1..Len(refinement_result.history) :
             refinement_result.history[n].iteration = n

\* C3: when the prediction of round 1 matches the intent, the loop has
\* returned iterations = 1 and final = TRUE with the initial SQL, after one
\* ResultsPredictor call and no SqlGenerator or SqlValidator call.
C3_EarlyExit ==
    (Len(iteration_history) >= 1 /\ Matches(iteration_history[1].results)) =>
       /\ Returned
       /\ refinement_result.iterations = 1
       /\ refinement_result.final
       /\ refinement_result.sql = valid_sql
       /\ CountCalls("previewer", InRefine) = 1
       /\ CountCalls("generator", InRefine) = 0
       /\ CountCalls("validator", InRefine) = 0

C3_Witness ==
    /\ pc = "finish"
    /\ Len(iteration_history) = 1
    /\ Matches(iteration_history[1].results)
    /\ valid_sql = "q3"

\* C4: a returned outcome has final = TRUE exactly if some round's prediction
\* matched the intent; the loop then stopped at the first such round k, with
\* iterations = k and with that round's SQL and prediction as sql and results.
C4_FinalIffConverged ==
    Returned =>
       /\ refinement_result.final <=> (ConvergedRounds # {})
       /\ \A k \in ConvergedRounds :
             /\ \A n \in ConvergedRounds : k <= n
             /\ Len(refinement_result.history) = k
             /\ refinement_result.iterations = k
             /\ refinement_result.sql = RefinePreviewCalls[k].sql
             /\ refinement_result.results = iteration_history[k].results

C4_Witness ==
    /\ Returned
    /\ refinement_result.final
    /\ refinement_result.iterations = 2
    /\ refinement_result.sql # valid_sql

\* the reply decodes into a record that holds the key
Decodable(content, key) == CanRead(JsonLoads(ExtractContent(content)), key)

\* C5: whatever the reply text, validate_sql returns a record whose is_valid
\* can be read, and preview_results one whose matches_user_intent can be
\* read; the field is false when the reply did not decode into such a record.
C5_FallbackTotality ==
    /\ p_stage = "validator" =>
          /\ CanRead(p_out, "is_valid")
          /\ ~Decodable(p_text, "is_valid") => p_out.fields["is_valid"] = "false"
    /\ p_stage = "previewer" =>
          /\ CanRead(p_out, "matches_user_intent")
          /\ ~Decodable(p_text, "matches_user_intent") =>
                p_out.fields["matches_user_intent"] = "false"

LastCall == calls[Len(calls)]

C7_CallBudget ==
    /\ CountCalls("previewer", Anywhere) <= max_iterations + 1
    /\ CountCalls("generator", Anywhere) <= max_iterations
    /\ CountCalls("validator", Anywhere) <= max_iterations
    /\ pc = "done" => CountCalls("previewer", Anywhere) >= 1

SubmissionBudget ==
    /\ CountCalls("previewer", Anywhere) <= max_iterations + 2
    /\ CountCalls("generator", Anywhere) <= max_iterations + 1
    /\ CountCalls("validator", Anywhere) <= max_iterations + 1
    /\ CountCalls("previewer", {"handler"}) <= 1
    /\ CountCalls("generator", {"handler"}) <= 1
    /\ CountCalls("validator", {"handler"}) <= 1
    /\ CountCalls("previewer", {"loop"}) <= max_iterations
    /\ CountCalls("previewer", {"final"}) <= 1
    /\ CountCalls("generator", InRefine) <= CountCalls("previewer", {"loop"})
    /\ CountCalls("validator", InRefine) <= CountCalls("previewer", {"loop"})
    /\ pc = "done" =>
          /\ CountCalls("previewer", Anywhere) >= 1
          /\ CountCalls("generator", Anywhere) >= 1
          /\ CountCalls("validator", Anywhere) >= 1

\* C7 as amended: a submission calls the ResultsPredictor at most 5 times
\* (one call of the handler, at most 3 of the loop, at most one after it), the
\* SqlGenerator and the SqlValidator at most 4 times each (one call of the
\* handler, at most one per round of the loop), each at least once when the
\* submission runs to its end; and no step issues more than one call.
C7_CallBudgetPerSubmission ==
    [][Len(calls') <= Len(calls) + 1 /\ SubmissionBudget']_vars

C7_Witness ==
    /\ pc = "done"
    /\ CountCalls("previewer", Anywhere) = max_iterations + 2
    /\ CountCalls("validator", Anywhere) = max_iterations + 1
    /\ CountCalls("generator", Anywhere) >= 2

\* C8: a script run that ends with an exception, and one that is still under
\* way, leaves schema, schema_analysis and query_history as they were at the
\* click; a run that reaches its end has appended exactly one entry.
C8_NoPartialState ==
    /\ pc \notin {"idle", "done"} => Snapshot = before
    /\ pc = "done" =>
          /\ schema = before.schema
          /\ schema_analysis = before.schema_analysis
          /\ Len(query_history) = Len(before.query_history) + 1
          /\ SubSeq(query_history, 1, Len(before.query_history)) =
                before.query_history

C8_Witness ==
    /\ pc = "raised"
    /\ err = "ReasonerFailure"
    /\ LastCall.where = "final"
    /\ Snapshot = before
    /\ schema_analysis # Absent

\* C9: a verdict with is_valid = false carries a suggested_fix that is
\* present and not empty, and no ResultsPredictor call receives a missing or
\* empty SQL.
C9_SuggestedFixNeverEmpty ==
    /\ \A v \in {validation_result, loop_validation} :
          (v.kind = "dict" /\ v.fields["is_valid"] = "false") =>
             /\ CanRead(v, "suggested_fix")
             /\ v.fields["suggested_fix"] # ""
    /\ \A n \in 1..Len(calls) :
          calls[n].stage = "previewer" => calls[n].sql \notin {"", Absent}

\* the places a..b of the reply hold one structured document, with its braces
\* at a and b
DocumentAt(a, b) ==
    /\ a < b
    /\ p_text[a] = "{" /\ p_text[b] = "}"
    /\ IsObject(StripWs(SubSeq(p_text, a, b)))

\* C10: when the reply holds a well-formed document, whatever surrounds it,
\* the stage returns what decoding that document alone gives.
C10_ExtractsDocument ==
    p_stage \in {"validator", "previewer"} =>
       \A a, b \in 1..Len(p_text) :
          DocumentAt(a, b) => p_out = JsonLoads(SubSeq(p_text, a, b))

\* C10 as amended: when the reply holds a well-formed document, the text
\* before it holds no "{" and the text after it holds no "}", the stage
\* returns what decoding that document alone gives.
C10_ExtractsOutermostDocument ==
    p_stage \in {"validator", "previewer"} =>
       \A a, b \in 1..Len(p_text) :
          ( /\ \A n \in 1..(a-1) : p_text[n] # "{"
            /\ \A n \in (b+1)..Len(p_text) : p_text[n] # "}"
            /\ DocumentAt(a, b) )
          => p_out = JsonLoads(SubSeq(p_text, a, b))

C10_Witness ==
    /\ p_stage = "previewer"
    /\ Len(p_text) = 5
    /\ p_text[1] = "w" /\ p_text[5] = "w"
    /\ DocumentAt(2, 4)
    /\ p_out.kind = "dict"
    /\ p_out.fields["matches_user_intent"] = "true"

\* the fallback record of the stage under study
StageFallback ==
    IF p_stage = "validator" THEN ValidatorFallback(p_sql)
    ELSE PreviewFallback(p_sql)

\* C11: for a reply text without a "{" ... "}" pair, and for a reply text whose
\* content from the first "{" to the last "}" is malformed, the stage returns
\* its fallback record and never a value decoded from the text.
C11_ParseFailure ==
    ( /\ p_stage \in {"validator", "previewer"}
      /\ \/ ReSearch(p_text) = <<>>
         \/ ~IsObject(StripWs(ReSearch(p_text))) )
    => p_out = StageFallback

\* C12: analyze_schema is never called with an empty raw schema; a generator,
\* validator or previewer call is issued only in a session that holds a
\* completed schema analysis, and only for a non-empty user request.
C12_SchemaPreconditions ==
    \A n \in 1..Len(calls) :
       /\ calls[n].stage = "analyzer" => calls[n].sql # ""
       /\ calls[n].stage \in {"generator", "validator", "previewer"} =>
             /\ schema_analysis # Absent
             /\ user_query # ""

C12_Witness ==
    /\ pc = "done"
    /\ Len(calls) >= 3
    /\ calls[1].stage = "generator"
    /\ schema_analysis \in AnalyzerReplies
    /\ user_query = "u1"

\* refine_sql_until_correct has just returned from below its loop
Exhausted == pc = "finish" /\ Returned /\ ~refinement_result.final

\* C13 as stated: on exhaustion the prediction after the loop is asked for the
\* very SQL that the prediction at the start of the last round evaluated.
C13_FinalCallDuplicates ==
    CountCalls("previewer", {"final"}) = 1 =>
       RefinePreviewCalls[max_iterations + 1].sql =
          RefinePreviewCalls[max_iterations].sql

\* C13: on exhaustion the prediction after the loop is asked for the
\* candidate the last round produced: the validator's suggested_fix when the
\* last round's candidate was found invalid, otherwise the last round's
\* non-empty suggested_improved_query, otherwise the generator's new query.
C13_FinalCallOnRefinedCandidate ==
    Exhausted =>
       /\ LastCall.stage = "previewer" /\ LastCall.where = "final"
       /\ LastCall.sql = current_sql
       /\ IF loop_validation.fields["is_valid"] = "false"
          THEN LastCall.sql = loop_validation.fields["suggested_fix"]
          ELSE IF preview_results.fields["suggested_improved_query"]
                     \notin {Absent, ""}
          THEN LastCall.sql = preview_results.fields["suggested_improved_query"]
          ELSE LastCall.sql \in GeneratorReplies

C13_Witness ==
    /\ Exhausted
    /\ RefinePreviewCalls[max_iterations + 1].sql = "q2"
    /\ RefinePreviewCalls[max_iterations].sql = "q1"

\* C14: when refine_sql_until_correct returns and no round has converged, it
\* has issued exactly one more ResultsPredictor call, on the last current_sql;
\* that prediction is the last record of the history, numbered
\* max_iterations; and the outcome has final = FALSE, iterations =
\* max_iterations, sql = that current_sql and results = that prediction.
C14_ExhaustionOutcome ==
    (pc = "finish" /\ Returned /\ ConvergedRounds = {}) =>
       /\ CountCalls("previewer", {"loop"}) = max_iterations
       /\ CountCalls("previewer", {"final"}) = 1
       /\ LastCall = Call("previewer", current_sql, "final")
       /\ Len(iteration_history) = max_iterations + 1
       /\ iteration_history[max_iterations + 1] =
             IterationRecord(max_iterations, current_sql,
                             refinement_result.results)
       /\ refinement_result.final = FALSE
       /\ refinement_result.iterations = max_iterations
       /\ refinement_result.sql = current_sql
       /\ refinement_result.history = iteration_history

C14_Witness ==
    /\ pc = "finish" /\ Returned /\ ConvergedRounds = {}
    /\ refinement_result.sql = "q1"
    /\ refinement_result.results.fields["matches_user_intent"] = "false"
    /\ Len(refinement_result.history) = max_iterations + 1

\* the rounds so far whose prediction carries no usable suggestion
RoundsWithoutSuggestion ==
    {k \in 1..Len(iteration_history) :
        iteration_history[k].results.fields["suggested_improved_query"]
           \in {Absent, ""}}

\* C15: in every non-matching round that goes on to validation, the candidate
\* is the prediction's suggested_improved_query when that field is present
\* and non-empty, and the generator is not called in that round; when the
\* field is absent or empty the generator is called exactly once in the
\* round, right after the prediction, with the round's SQL as previous SQL
\* and with the prediction's explanation at hand, and its output is the
\* candidate.  So the generator calls of the loop are as many as the rounds
\* without a usable suggestion.
C15_NextCandidateChoice ==
    pc = "revalidate" =>
       LET round == iteration_history[Len(iteration_history)]
           suggestion == preview_results.fields["suggested_improved_query"]
       IN /\ round.results = preview_results
          /\ ~Matches(preview_results)
          /\ IF suggestion \notin {Absent, ""}
             THEN /\ current_sql = suggestion
                  /\ LastCall = Call("previewer", round.sql, "loop")
             ELSE /\ LastCall = Call("generator", round.sql, "loop")
                  /\ calls[Len(calls) - 1] = Call("previewer", round.sql, "loop")
                  /\ preview_results.fields["explanation"] # Absent
                  /\ current_sql \in GeneratorReplies
          /\ CountCalls("generator", {"loop"}) =
                Cardinality(RoundsWithoutSuggestion)

C15_Witness ==
    /\ pc = "revalidate"
    /\ preview_results.fields["suggested_improved_query"] = ""
    /\ LastCall.stage = "generator"
    /\ Len(iteration_history) = 2
    /\ current_sql = "q3"

\* the SQL that line 269 leaves in current_sql after the verdict on candidate
AfterVerdict(candidate) ==
    IF loop_validation.fields["is_valid"] = "false"
    THEN loop_validation.fields["suggested_fix"]
    ELSE candidate

\* C16: a round that does not converge calls the validator exactly once, on
\* the candidate just chosen, after that choice and before the next
\* ResultsPredictor call; the next ResultsPredictor call evaluates the
\* verdict's suggested_fix when the candidate was found invalid and the
\* candidate itself when it was found valid.  A converging round calls no
\* validator.
C16_RevalidationOrdering ==
    /\ (pc \in {"loop_preview", "final_preview"} /\ i >= 1) =>
          LET suggestion ==
                 preview_results.fields["suggested_improved_query"]
          IN /\ LastCall.stage = "validator" /\ LastCall.where = "loop"
             /\ IF suggestion \notin {Absent, ""}
                THEN LastCall.sql = suggestion
                ELSE /\ LastCall.sql \in GeneratorReplies
                     /\ calls[Len(calls) - 1].stage = "generator"
             /\ current_sql = AfterVerdict(LastCall.sql)
             /\ CountCalls("validator", {"loop"}) = i
             /\ Len(iteration_history) = i
    /\ (pc \in {"next_candidate", "finish"} /\ Len(iteration_history) >= 2) =>
          /\ LastCall.stage = "previewer" /\ LastCall.where \in InRefine
          /\ calls[Len(calls) - 1].stage = "validator"
          /\ calls[Len(calls) - 1].where = "loop"
          /\ LastCall.sql = AfterVerdict(calls[Len(calls) - 1].sql)
          /\ CountCalls("validator", {"loop"}) =
                CountCalls("previewer", InRefine) - 1
    /\ (pc = "finish" /\ Returned /\ refinement_result.final) =>
          /\ LastCall.stage = "previewer"
          /\ CountCalls("validator", {"loop"}) =
                refinement_result.iterations - 1

C16_Witness ==
    /\ pc = "next_candidate"
    /\ Len(iteration_history) = 2
    /\ loop_validation.fields["is_valid"] = "false"
    /\ calls[Len(calls) - 1] = Call("validator", "q1", "loop")
    /\ LastCall = Call("previewer", "q2", "loop")

\* the script is inside refine_sql_until_correct or holds what it returned
InFunction ==
    pc \in {"loop_preview", "next_candidate", "revalidate", "final_preview",
            "finish"}

\* C17: every ResultsPredictor call of refine_sql_until_correct that returns
\* appends exactly one record, holding the SQL of the call and the prediction
\* it returned; no other step touches the history, and records once appended
\* stay as they are; a returned outcome carries that history, and its sql and
\* results are those of the last record.
C17_RecordOutcomeConsistency ==
    [][ (InFunction /\ InFunction') =>
           LET n == Len(iteration_history)
               called == Len(RefinePreviewCalls') > Len(RefinePreviewCalls)
           IN /\ Len(iteration_history') = IF called THEN n + 1 ELSE n
              /\ SubSeq(iteration_history', 1, n) = iteration_history
              /\ Len(iteration_history') = Len(RefinePreviewCalls')
              /\ called =>
                    /\ iteration_history'[n + 1].sql = LastCall'.sql
                    /\ IF LastCall'.where = "loop"
                       THEN iteration_history'[n + 1].results = preview_results'
                       ELSE \E content \in PreviewReplies :
                               iteration_history'[n + 1].results =
                                  PreviewResultsParse(content, LastCall'.sql)
              /\ Returned' =>
                    /\ refinement_result'.history = iteration_history'
                    /\ refinement_result'.sql =
                          iteration_history'[Len(iteration_history')].sql
                    /\ refinement_result'.results =
                          iteration_history'[Len(iteration_history')].results
      ]_vars

C17_Witness ==
    /\ pc = "finish" /\ Returned
    /\ Len(iteration_history) = 3
    /\ iteration_history[1].sql = "q3"
    /\ iteration_history[2].sql = "q1"
    /\ refinement_result.sql = "q2"
    /\ refinement_result.results = iteration_history[3].results

\* the ResultsPredictor calls of the submission, in order
PreviewCalls == SelectSeq(calls, LAMBDA c : c.stage = "previewer")

\* C18: the entry appended to the query history stores, next to its results,
\* the SQL those results were predicted on: the SQL of the submission's last
\* ResultsPredictor call, which is the validated initial SQL when refinement
\* did not run and the refinement outcome's sql when it ran.
C18_EntryPairsSqlWithResults ==
    (pc = "done" /\ query_history # <<>>) =>
       query_history[Len(query_history)].sql =
          PreviewCalls[Len(PreviewCalls)].sql

\* C19 as stated: in every returned outcome, final is the verdict
\* matches_user_intent of the outcome's results.
C19_FlagEqualsVerdict ==
    Returned =>
       (refinement_result.final <=> Matches(refinement_result.results))

\* C19: an outcome with final = TRUE has results whose matches_user_intent is
\* true; an outcome with final = FALSE has for results the prediction made
\* after the loop, whose verdict was not looked at and can be either value.
C19_FlagImpliesVerdict ==
    (pc = "finish" /\ Returned) =>
       /\ refinement_result.final => Matches(refinement_result.results)
       /\ ~refinement_result.final =>
             /\ LastCall.where = "final"
             /\ refinement_result.results =
                   iteration_history[max_iterations + 1].results
             /\ \A k \in 1..max_iterations :
                   ~Matches(iteration_history[k].results)

C19_Witness ==
    /\ pc = "finish" /\ Returned
    /\ ~refinement_result.final
    /\ Matches(refinement_result.results)

====
